---- MODULE Spec2Model ----
(***************************************************************************)
(* Screen-share signaling: the relay server (relay-server/server.js) and   *)
(* the ScreenShareManager client (renderer/screenshare.js).                *)
(*                                                                         *)
(* A channel is one WebSocket, seen from both ends: srv[ch] is the relay's *)
(* view of it (ws.readyState and which events were emitted), cli[ch] the   *)
(* client's.  toRelay[ch] and toClient[ch] are the frames in flight, in    *)
(* order.  Every handler of the code is one action.                        *)
(***************************************************************************)
EXTENDS Integers, Sequences, FiniteSets, TLC

\* ------------------------------------------------------------------ bounds
NumIds  == 3    \* size of the id space generateId draws from
MaxChan == 3    \* WebSockets opened in one run
MaxSend == 2    \* frames written by hand-driven endpoints (SpecRelay)
NumClients == 3 \* ScreenShareManager instances (one per running app)
MaxStream == 2  \* getUserMedia captures started in one run
MaxView == 2    \* clicks on a View button in one run
MaxUpset == 1   \* events out of step in one run: a network failure, an ICE
                \* candidate, a user action before the system is quiet
MaxPC   == 2 * MaxView  \* a View click creates at most one connection at each end
MaxCall == 3    \* calls that reach the host of the broker-based variant

Ids   == 1..NumIds
Chans == 1..MaxChan
Cl    == 1..NumClients
PCs   == 1..MaxPC
Streams == 1..MaxStream
Calls == 1..MaxCall
Names == {"ann"}

VARIABLES
    clients,    \* server.js: const clients = new Map()   id -> session
    chanId,     \* server.js: const clientId, per connection closure
    srv,        \* relay end of each channel
    cli,        \* client end of each channel
    owner,      \* the ScreenShareManager whose socket it is; 0: hand-driven
    toRelay,    \* frames client -> relay, per channel
    toClient,   \* frames relay -> client, per channel
    nchan,      \* channels opened so far
    idHigh,     \* highest id generateId has returned so far
    nsent,      \* frames written by hand-driven endpoints so far
    ev,         \* the handler that ran last: its input and what it sent
    \* ScreenShareManager fields, per client
    ws, clientId, username, isConnected, isSharing, localStream,
    peerConnections, users,
    player,     \* #video-player is displayed
    srcObject,  \* #remote-video.srcObject: the peer connection whose stream it shows
    \* browser objects
    pcs,        \* RTCPeerConnection objects
    npc,        \* ... created so far
    streams,    \* captured MediaStreams
    nstream,    \* getUserMedia captures started so far
    capturing,  \* startSharing calls waiting for their capture, per client
    nview,      \* View clicks so far
    nupset,     \* events out of step so far
    \* broker-based variant (part_004, second ScreenShareManager)
    peer,       \* this.peer: the Peer made by generateCode
    activeCall, \* this.activeCall
    calls       \* MediaConnection objects handed to peer.on('call')

cliV == <<ws, clientId, username, isConnected, isSharing, localStream,
          peerConnections, users, player, srcObject>>
rtcV == <<pcs, npc, streams, nstream, capturing, nview, nupset>>
p2pV == <<peer, activeCall, calls>>

vars == <<clients, chanId, srv, cli, owner, toRelay, toClient, nchan, idHigh,
          nsent, ev, cliV, rtcV, p2pV>>

\* ---------------------------------------------------------------- messages
\* One record shape for every SignalingMessage; a field a variant does not
\* carry keeps its default.  payload stands for message.offer, message.answer
\* and message.candidate, which the relay never reads.
NoMsg ==
    [type |-> "", clientId |-> 0, username |-> "", users |-> {},
     viewerId |-> 0, viewerUsername |-> "", targetId |-> 0, senderId |-> 0,
     payload |-> 0]

NoSession == [ws |-> 0, username |-> "", isSharing |-> FALSE]

\* an RTCPeerConnection: who created it and as what, the map key it was
\* stored under, connectionState, the await its creator is in, whether the
\* local description is set, the peer connection whose description is its
\* remote description, remote candidates added, the state of inbound tracks
NoPC == [owner |-> 0, role |-> "", key |-> 0, state |-> "", stage |-> "",
         local |-> FALSE, remote |-> 0, cands |-> 0, inbound |-> "none"]

NoStream == [owner |-> 0, live |-> FALSE]

\* a MediaConnection at the host: its state, and the stream call.answer gave it
NoCall == [state |-> "none", stream |-> 0]

\* ev.pre is the directory as the handler found it
NoEv == [op |-> "none", ch |-> 0, id |-> 0, msg |-> NoMsg, out |-> << >>,
         pre |-> [i \in Ids |-> NoSession]]

Has(cl, id) == id \in Ids /\ cl[id].ws # 0

\* ------------------------------------------------------------------- relay
\* generateId: two Math.random() strings, no look-up in clients.  Ids are
\* interchangeable, so the draw is taken up to renaming: any id returned
\* before, or the next unused one.
generateId == { i \in Ids : i <= idHigh + 1 }

\* send(ws, data): written only while the relay's readyState is OPEN.
\* rs is the readyState of every channel at the time of the call.
send(rs, sk, data) ==
    IF sk # 0 /\ rs[sk] = "open" THEN << [ws |-> sk, data |-> data] >> ELSE << >>

\* the users array of a user-list message (connectedAt left out)
UserList(cl) ==
    { [id |-> i, username |-> cl[i].username, isSharing |-> cl[i].isSharing] :
        i \in { j \in Ids : cl[j].ws # 0 } }

UserListMsg(cl) == [NoMsg EXCEPT !.type = "user-list", !.users = UserList(cl)]

RECURSIVE BroadcastFrom(_, _, _)
BroadcastFrom(cl, rs, i) ==
    IF i > NumIds THEN << >>
    ELSE (IF cl[i].ws # 0 /\ rs[cl[i].ws] = "open"
            THEN send(rs, cl[i].ws, UserListMsg(cl)) ELSE << >>)
         \o BroadcastFrom(cl, rs, i + 1)

\* broadcastUserList(): one user-list to every session whose socket is OPEN
broadcastUserList(cl, rs) == BroadcastFrom(cl, rs, 1)

\* case 'set-username'
SetUsername(cl, senderId, message) ==
    [cl EXCEPT ![senderId].username =
        IF message.username = "" THEN "Anonymous" ELSE message.username]

\* case 'start-sharing' / 'stop-sharing'
SetSharing(cl, senderId, flag) == [cl EXCEPT ![senderId].isSharing = flag]

\* case 'request-stream': the gate
StreamGateMutant(cl, targetId) == Has(cl, targetId)
StreamGate(cl, targetId) == Has(cl, targetId) /\ cl[targetId].isSharing

RequestStreamOut(cl, rs, senderId, message) ==
    IF StreamGate(cl, message.targetId)
      THEN send(rs, cl[message.targetId].ws,
                [NoMsg EXCEPT !.type = "stream-request",
                              !.viewerId = senderId,
                              !.viewerUsername = cl[senderId].username])
      ELSE << >>

\* case 'offer' / 'answer' / 'ice-candidate': { ...message, senderId }
StampMutant(senderId, message) == message
Stamp(senderId, message) == [message EXCEPT !.senderId = senderId]

ForwardOutMutant(cl, rs, senderId, message) ==
    IF Has(cl, message.targetId)
      THEN send(rs, cl[message.targetId].ws, Stamp(senderId, message))
           \o send(rs, cl[senderId].ws, Stamp(senderId, message))
      ELSE << >>
ForwardOut(cl, rs, senderId, message) ==
    IF Has(cl, message.targetId)
      THEN send(rs, cl[message.targetId].ws, Stamp(senderId, message))
      ELSE << >>

Routed == {"offer", "answer", "ice-candidate"}

\* default: console.log('Unknown message type'); the same is left of a frame
\* whose JSON.parse throws (the catch of ws.on('message') logs it)
IgnoredMutant(cl, rs) == [clients |-> cl, out |-> broadcastUserList(cl, rs)]
Ignored(cl, rs) == [clients |-> cl, out |-> << >>]

\* handleMessage(senderId, message): the new directory and what was sent
handleMessage(cl, rs, senderId, message) ==
    IF ~Has(cl, senderId) THEN [clients |-> cl, out |-> << >>]
    ELSE CASE message.type = "set-username" ->
                LET c2 == SetUsername(cl, senderId, message)
                IN  [clients |-> c2, out |-> broadcastUserList(c2, rs)]
           [] message.type = "start-sharing" ->
                LET c2 == SetSharing(cl, senderId, TRUE)
                IN  [clients |-> c2, out |-> broadcastUserList(c2, rs)]
           [] message.type = "stop-sharing" ->
                LET c2 == SetSharing(cl, senderId, FALSE)
                IN  [clients |-> c2, out |-> broadcastUserList(c2, rs)]
           [] message.type = "request-stream" ->
                [clients |-> cl, out |-> RequestStreamOut(cl, rs, senderId, message)]
           [] message.type \in Routed ->
                [clients |-> cl, out |-> ForwardOut(cl, rs, senderId, message)]
           [] OTHER -> Ignored(cl, rs)

\* A frame the relay wrote waits in the client's queue unless the client end
\* is already gone (the frame is then lost in flight).  A hand-driven endpoint
\* reads each frame as it arrives, so nothing waits for it.
Listening(ch) == cli[ch] \in {"connecting", "open"}
Queued(ch) == Listening(ch) /\ owner[ch] # 0
Gone(ch) == cli[ch] \in {"closing", "failed", "closed"}

\* ws.send: the frame goes behind the frames already written to that socket
EnqueueMutant(q, h) ==
    IF Queued(h.ws) THEN [q EXCEPT ![h.ws] = << h.data >> \o @] ELSE q
Enqueue(q, h) ==
    IF Queued(h.ws) THEN [q EXCEPT ![h.ws] = Append(@, h.data)] ELSE q

RECURSIVE Deliver(_, _)
Deliver(q, out) ==
    IF out = << >> THEN q
    ELSE Deliver(Enqueue(q, Head(out)), Tail(out))

\* what wss.on('connection') writes: connected to the new socket, then the
\* broadcast
ConnectionOutMutant(cl, rs, ch, newId) ==
    broadcastUserList(cl, rs)
    \o send(rs, ch, [NoMsg EXCEPT !.type = "connected", !.clientId = newId])
ConnectionOut(cl, rs, ch, newId) ==
    send(rs, ch, [NoMsg EXCEPT !.type = "connected", !.clientId = newId])
    \o broadcastUserList(cl, rs)

\* wss.on('connection')
OnConnection(ch) ==
    /\ cli[ch] = "connecting"
    /\ srv[ch] = "none"
    /\ \E newId \in generateId :
         LET rs == [srv EXCEPT ![ch] = "open"]
             c2 == [clients EXCEPT ![newId] =
                       [ws |-> ch, username |-> "Anonymous", isSharing |-> FALSE]]
             out == ConnectionOut(c2, rs, ch, newId)
         IN  /\ clients' = c2
             /\ chanId' = [chanId EXCEPT ![ch] = newId]
             /\ srv' = rs
             /\ idHigh' = IF newId > idHigh THEN newId ELSE idHigh
             /\ toClient' = Deliver(toClient, out)
             /\ ev' = [op |-> "connection", ch |-> ch, id |-> newId,
                       msg |-> NoMsg, out |-> out, pre |-> clients]
    /\ UNCHANGED <<p2pV, cli, owner, toRelay, nchan, nsent, cliV, rtcV>>

\* ws.on('message'): JSON.parse, then handleMessage; a frame that does not
\* parse is logged and dropped
Receive(ch, message) ==
    LET r == IF message.type = "malformed"
               THEN Ignored(clients, srv)
               ELSE handleMessage(clients, srv, chanId[ch], message)
    IN  /\ clients' = r.clients
        /\ toClient' = Deliver(toClient, r.out)
        /\ ev' = [op |-> "message", ch |-> ch, id |-> chanId[ch],
                  msg |-> message, out |-> r.out, pre |-> clients]

OnMessage(ch) ==
    /\ srv[ch] = "open"
    /\ toRelay[ch] # << >>
    /\ Receive(ch, Head(toRelay[ch]))
    /\ toRelay' = [toRelay EXCEPT ![ch] = Tail(@)]
    /\ UNCHANGED <<p2pV, chanId, srv, cli, owner, nchan, idHigh, nsent, cliV, rtcV>>

Remove(cl, id) == [cl EXCEPT ![id] = NoSession]

\* The relay end learns that the socket is going down: readyState leaves OPEN,
\* the close event is still to come.
SrvClosing(ch) ==
    /\ srv[ch] = "open"
    /\ Gone(ch)
    /\ srv' = [srv EXCEPT ![ch] = "closing"]
    /\ toRelay' = [toRelay EXCEPT ![ch] = << >>]
    /\ ev' = NoEv
    /\ UNCHANGED <<p2pV, clients, chanId, cli, owner, toClient, nchan, idHigh, nsent, cliV, rtcV>>

\* ws.on('error'): readyState is CLOSING when the event is emitted
OnError(ch) ==
    /\ srv[ch] \in {"open", "closing"}
    /\ Gone(ch)
    /\ LET rs == [srv EXCEPT ![ch] = "errored"]
           c2 == Remove(clients, chanId[ch])
           out == broadcastUserList(c2, rs)
       IN  /\ clients' = c2
           /\ srv' = rs
           /\ toClient' = Deliver(toClient, out)
           /\ ev' = [op |-> "error", ch |-> ch, id |-> chanId[ch],
                     msg |-> NoMsg, out |-> out, pre |-> clients]
    /\ toRelay' = [toRelay EXCEPT ![ch] = << >>]
    /\ UNCHANGED <<p2pV, chanId, cli, owner, nchan, idHigh, nsent, cliV, rtcV>>

\* ws.on('close')
OnClose(ch) ==
    /\ srv[ch] \in {"closing", "errored"}
    /\ LET rs == [srv EXCEPT ![ch] = "closed"]
           c2 == Remove(clients, chanId[ch])
           out == broadcastUserList(c2, rs)
       IN  /\ clients' = c2
           /\ srv' = rs
           /\ toClient' = Deliver(toClient, out)
           /\ ev' = [op |-> "close", ch |-> ch, id |-> chanId[ch],
                     msg |-> NoMsg, out |-> out, pre |-> clients]
    /\ UNCHANGED <<p2pV, chanId, cli, owner, toRelay, nchan, idHigh, nsent, cliV, rtcV>>

\* ------------------------------------------------- hand-driven endpoints
\* An endpoint that speaks the wire protocol directly: it may write any frame.
RawMsgs ==
    { [NoMsg EXCEPT !.type = "set-username", !.username = n] : n \in {"", "ann"} }
    \cup { [NoMsg EXCEPT !.type = t] :
             t \in {"start-sharing", "stop-sharing", "bogus", "malformed"} }
    \cup { [NoMsg EXCEPT !.type = "request-stream", !.targetId = t] : t \in Ids }
    \cup { [NoMsg EXCEPT !.type = ty, !.targetId = t, !.payload = 1,
                         !.senderId = (t % NumIds) + 1] :
             ty \in Routed, t \in Ids }

RawConnect ==
    /\ nchan < MaxChan
    /\ nchan' = nchan + 1
    /\ cli' = [cli EXCEPT ![nchan + 1] = "connecting"]
    /\ ev' = NoEv
    /\ UNCHANGED <<p2pV, clients, chanId, srv, owner, toRelay, toClient, idHigh, nsent, cliV, rtcV>>

\* the relay reads a frame the endpoint wrote
RawMessage(ch, m) ==
    /\ owner[ch] = 0
    /\ Listening(ch)
    /\ srv[ch] = "open"
    /\ nsent < MaxSend
    /\ nsent' = nsent + 1
    /\ Receive(ch, m)
    /\ UNCHANGED <<p2pV, chanId, srv, cli, owner, toRelay, nchan, idHigh, cliV, rtcV>>

\* the endpoint goes away and the relay end notices: readyState leaves OPEN
RawClose(ch) ==
    /\ owner[ch] = 0
    /\ Listening(ch)
    /\ srv[ch] = "open"
    /\ cli' = [cli EXCEPT ![ch] = "closed"]
    /\ srv' = [srv EXCEPT ![ch] = "closing"]
    /\ ev' = NoEv
    /\ UNCHANGED <<p2pV, clients, chanId, owner, toRelay, toClient, nchan, idHigh, nsent, cliV, rtcV>>

\* ------------------------------------------------------ ScreenShareManager
\* Handlers call one another (disconnect calls stopSharing, cleanup calls
\* stopSharing and closeVideoPlayer), so each method is an operator from the
\* state it finds to the state it leaves; World gathers what they touch.
World ==
    [ws |-> ws, clientId |-> clientId, isConnected |-> isConnected,
     isSharing |-> isSharing, localStream |-> localStream,
     peerConnections |-> peerConnections, users |-> users, player |-> player,
     srcObject |-> srcObject, pcs |-> pcs,
     streams |-> streams, cli |-> cli, toRelay |-> toRelay,
     toClient |-> toClient]

Apply(w) ==
    /\ ws' = w.ws
    /\ clientId' = w.clientId
    /\ isConnected' = w.isConnected
    /\ isSharing' = w.isSharing
    /\ localStream' = w.localStream
    /\ peerConnections' = w.peerConnections
    /\ users' = w.users
    /\ player' = w.player
    /\ srcObject' = w.srcObject
    /\ pcs' = w.pcs
    /\ streams' = w.streams
    /\ cli' = w.cli
    /\ toRelay' = w.toRelay
    /\ toClient' = w.toClient

\* ev for a handler of client c: ev.ch is the client, ev.id the socket,
\* connection, stream or user it is about, ev.msg the frame it handled
CEv(op, c, x, m) ==
    [op |-> op, ch |-> c, id |-> x, msg |-> m, out |-> << >>, pre |-> NoEv.pre]

\* sendMessage: written only if this.ws is set and OPEN; the frame is lost if
\* the relay end no longer reads
sendMessage(w, c, m) ==
    IF w.ws[c] # 0 /\ w.cli[w.ws[c]] = "open"
      THEN [w EXCEPT !.toRelay[w.ws[c]] =
                IF srv[w.ws[c]] = "open" THEN Append(@, m) ELSE @]
      ELSE w

\* the peer connections this.peerConnections holds
Held(w, c) == { w.peerConnections[c][k] : k \in Ids } \ {0}

\* pc.close() on each of ps: connectionState becomes closed, no event is
\* fired, and an await pending on the connection rejects.  Nothing reads the
\* descriptions and candidates of a closed connection, so they are dropped.
CloseAll(w, ps) ==
    [w EXCEPT !.pcs = [p \in PCs |->
        IF p \in ps THEN [NoPC EXCEPT !.owner = w.pcs[p].owner,
                                      !.role = w.pcs[p].role,
                                      !.inbound = w.pcs[p].inbound,
                                      !.state = "closed", !.stage = "done"]
                    ELSE @[p]]]

\* this.peerConnections.forEach(pc => pc.close()); this.peerConnections.clear()
ClosePeerConnections(w, c) ==
    [CloseAll(w, Held(w, c)) EXCEPT !.peerConnections[c] = [k \in Ids |-> 0]]

\* stopSharing: this.localStream.getTracks().forEach(track => track.stop())
StopLocalStreamMutant(w, c) ==
    IF w.localStream[c] # 0
      THEN [w EXCEPT !.streams[w.localStream[c]].live = FALSE]
      ELSE w
StopLocalStream(w, c) ==
    IF w.localStream[c] # 0
      THEN [w EXCEPT !.streams[w.localStream[c]].live = FALSE,
                     !.localStream[c] = 0]
      ELSE w

stopSharing(w, c) ==
    LET w1 == StopLocalStream(w, c)
        w2 == ClosePeerConnections(w1, c)
        w3 == IF w2.isConnected[c]
                THEN sendMessage(w2, c, [NoMsg EXCEPT !.type = "stop-sharing"])
                ELSE w2
    IN  [w3 EXCEPT !.isSharing[c] = FALSE]

\* closeVideoPlayer
closeVideoPlayer(w, c) ==
    LET w1 == IF w.srcObject[c] # 0
                THEN [w EXCEPT !.pcs[w.srcObject[c]].inbound = "stopped",
                               !.srcObject[c] = 0]
                ELSE w
        w2 == ClosePeerConnections(w1, c)
    IN  [w2 EXCEPT !.player[c] = FALSE]

\* cleanup
cleanup(w, c) ==
    LET w1 == IF w.isSharing[c] THEN stopSharing(w, c) ELSE w
        w2 == closeVideoPlayer(w1, c)
    IN  [w2 EXCEPT !.users[c] = {}]

\* ws.close(): a socket that is connecting or open starts closing, and hands
\* no more frames to onmessage
CloseSocket(w, ch) ==
    IF w.cli[ch] \in {"connecting", "open"}
      THEN [w EXCEPT !.cli[ch] = "closing", !.toClient[ch] = << >>]
      ELSE w

\* disconnect
disconnect(w, c) ==
    LET w1 == IF w.isSharing[c] THEN stopSharing(w, c) ELSE w
        w2 == IF w1.ws[c] # 0
                THEN [CloseSocket(w1, w1.ws[c]) EXCEPT !.ws[c] = 0]
                ELSE w1
    IN  [w2 EXCEPT !.isConnected[c] = FALSE, !.clientId[c] = 0, !.users[c] = {}]

\* handleStreamRequest up to its first await: the guard, new
\* RTCPeerConnection, peerConnections.set(viewerId, pc), addTrack, the
\* callbacks, createOffer().  p is the new connection.
handleStreamRequestUnguarded(w, c, viewerId, p) ==
    [w EXCEPT !.pcs[p] = [NoPC EXCEPT !.owner = c, !.role = "sharer",
                                     !.key = viewerId, !.state = "new",
                                     !.stage = "offering"],
              !.peerConnections[c][viewerId] = p]
handleStreamRequestMutant(w, c, viewerId, p) ==
    IF \/ ~w.isSharing[c] \/ w.localStream[c] = 0
       \/ \E q \in PCs : /\ w.pcs[q].owner = c /\ w.pcs[q].role = "sharer"
                          /\ w.pcs[q].state # "closed" /\ w.pcs[q].remote = 0
    THEN w
    ELSE [w EXCEPT !.pcs[p] = [NoPC EXCEPT !.owner = c, !.role = "sharer",
                                         !.key = viewerId, !.state = "new",
                                         !.stage = "offering"],
                   !.peerConnections[c][viewerId] = p]
handleStreamRequest(w, c, viewerId, p) ==
    IF ~w.isSharing[c] \/ w.localStream[c] = 0 THEN w
    ELSE [w EXCEPT !.pcs[p] = [NoPC EXCEPT !.owner = c, !.role = "sharer",
                                         !.key = viewerId, !.state = "new",
                                         !.stage = "offering"],
                   !.peerConnections[c][viewerId] = p]

\* handleOffer up to its first await: new RTCPeerConnection,
\* peerConnections.set(senderId, pc), the callbacks, setRemoteDescription(offer)
handleOffer(w, c, senderId, offer, p) ==
    [w EXCEPT !.pcs[p] = [NoPC EXCEPT !.owner = c, !.role = "viewer",
                                     !.key = senderId, !.state = "new",
                                     !.stage = "answering", !.remote = offer],
              !.peerConnections[c][senderId] = p]

\* handleAnswer: setRemoteDescription(answer) on the connection stored under
\* senderId; it rejects (caught, logged) unless that connection has a local
\* offer waiting for its answer
handleAnswer(w, c, senderId, answer) ==
    LET p == w.peerConnections[c][senderId]
    IN  IF p # 0 /\ w.pcs[p].state # "closed" /\ w.pcs[p].role = "sharer"
             /\ w.pcs[p].local /\ w.pcs[p].remote = 0
          THEN [w EXCEPT !.pcs[p].remote = answer]
          ELSE w

\* handleIceCandidate: addIceCandidate on the connection stored under senderId
handleIceCandidate(w, c, senderId, candidate) ==
    LET p == w.peerConnections[c][senderId]
    IN  IF p # 0 /\ w.pcs[p].state # "closed" /\ w.pcs[p].remote # 0
          THEN [w EXCEPT !.pcs[p].cands = @ + 1]
          ELSE w

\* case 'user-list': this.users = message.users
StoreUsers(w, c, message) ==
    [w EXCEPT !.users[c] = message.users]

\* handleServerMessage; p is the RTCPeerConnection a stream-request or an
\* offer would create
handleServerMessage(w, c, message, p) ==
    CASE message.type = "connected" ->
           sendMessage([w EXCEPT !.clientId[c] = message.clientId], c,
                       [NoMsg EXCEPT !.type = "set-username",
                                     !.username = username[c]])
      [] message.type = "user-list" -> StoreUsers(w, c, message)
      [] message.type = "stream-request" ->
           handleStreamRequest(w, c, message.viewerId, p)
      [] message.type = "offer" ->
           handleOffer(w, c, message.senderId, message.payload, p)
      [] message.type = "answer" ->
           handleAnswer(w, c, message.senderId, message.payload)
      [] message.type = "ice-candidate" ->
           handleIceCandidate(w, c, message.senderId, message.payload)
      [] OTHER -> w

\* whether handling the message creates an RTCPeerConnection
NeedsPC(c, message) ==
    \/ message.type = "offer"
    \/ message.type = "stream-request" /\ isSharing[c] /\ localStream[c] # 0

\* Linked: both ends hold each other's description and neither is closed
Linked(p) ==
    /\ pcs[p].state # "closed"
    /\ pcs[p].local
    /\ pcs[p].remote \in PCs
    /\ pcs[pcs[p].remote].state # "closed"
    /\ pcs[pcs[p].remote].local
    /\ pcs[pcs[p].remote].remote = p

\* the transport of p runs: both descriptions are set and p is not closed
Started(p) == pcs[p].state # "closed" /\ pcs[p].local /\ pcs[p].remote # 0

\* nothing is in flight: no frame, no socket event, no capture, no
\* negotiation step, no transport on its way up or down
Quiet ==
    /\ \A ch \in Chans :
         /\ toRelay[ch] = << >>
         /\ toClient[ch] = << >>
         /\ \/ cli[ch] = "none"
            \/ cli[ch] = "open" /\ srv[ch] = "open"
            \/ cli[ch] = "closed" /\ srv[ch] = "closed"
    /\ \A c \in Cl : capturing[c] = 0
    /\ \A p \in PCs :
         /\ pcs[p].stage \notin {"offering", "answering"}
         /\ Linked(p) => pcs[p].state = "connected"
         /\ (Started(p) /\ ~Linked(p)) => pcs[p].state = "failed"

\* an event out of step
Upset == nupset < MaxUpset /\ nupset' = nupset + 1

\* a user acts when the system is quiet, or out of step
Pace == IF Quiet THEN UNCHANGED nupset ELSE Upset

\* what the handlers above never write
relayV == <<clients, chanId, srv, idHigh, nsent>>

\* connect(): the Connect button is shown while isConnected is false.  The
\* apps are interchangeable, so they are started in the order of their index.
connect(c, name) ==
    /\ ~isConnected[c]
    /\ \A d \in Cl : d < c => username[d] # ""
    /\ nchan < MaxChan
    /\ username' = [username EXCEPT ![c] = name]
    /\ ws' = [ws EXCEPT ![c] = nchan + 1]
    /\ cli' = [cli EXCEPT ![nchan + 1] = "connecting"]
    /\ owner' = [owner EXCEPT ![nchan + 1] = c]
    /\ nchan' = nchan + 1
    /\ Pace
    /\ ev' = CEv("connect", c, nchan + 1, NoMsg)
    /\ UNCHANGED <<p2pV, relayV, toRelay, toClient, clientId, isConnected,
                   isSharing, localStream, peerConnections, users, player,
                   srcObject, pcs, npc, streams, nstream, capturing, nview>>

\* the Disconnect button is shown while isConnected is true
ClickDisconnect(c) ==
    /\ isConnected[c]
    /\ Apply(disconnect(World, c))
    /\ Pace
    /\ ev' = CEv("disconnect", c, 0, NoMsg)
    /\ UNCHANGED <<p2pV, relayV, owner, nchan, username, npc, nstream, capturing,
                   nview>>

\* startSharing() up to its first await; the Start button is shown in the
\* share section (isConnected) while isSharing is false
startSharing(c) ==
    /\ isConnected[c]
    /\ ~isSharing[c]
    /\ nstream < MaxStream
    /\ nstream' = nstream + 1
    /\ capturing' = [capturing EXCEPT ![c] = @ + 1]
    /\ Pace
    /\ ev' = CEv("startSharing", c, 0, NoMsg)
    /\ UNCHANGED <<p2pV, relayV, cli, owner, toRelay, toClient, nchan, cliV, pcs,
                   npc, streams, nview>>

\* startSharing() after getUserMedia resolved: this.localStream = videoStream,
\* sendMessage(start-sharing), this.isSharing = true
Announce(w, c) == sendMessage(w, c, [NoMsg EXCEPT !.type = "start-sharing"])

Captured(c) ==
    /\ capturing[c] > 0
    /\ LET s == Cardinality({ x \in Streams : streams[x].owner # 0 }) + 1
           w1 == [World EXCEPT !.streams[s] = [owner |-> c, live |-> TRUE],
                               !.localStream[c] = s]
           w2 == Announce(w1, c)
       IN  /\ Apply([w2 EXCEPT !.isSharing[c] = TRUE])
           /\ ev' = CEv("captured", c, s, NoMsg)
    /\ capturing' = [capturing EXCEPT ![c] = @ - 1]
    /\ UNCHANGED <<p2pV, relayV, owner, nchan, username, npc, nstream, nview,
                   nupset>>

\* startSharing() when no capture API, no source, or getUserMedia rejects with
\* no second source that works: the catch block alerts and returns
CaptureFailedMutant(c) ==
    /\ capturing[c] > 0
    /\ capturing' = [capturing EXCEPT ![c] = @ - 1]
    /\ Apply(Announce(World, c))
    /\ ev' = CEv("captureFailed", c, 0, NoMsg)
    /\ UNCHANGED <<p2pV, relayV, owner, nchan, username, npc, nstream, nview,
                   nupset>>
CaptureFailed(c) ==
    /\ capturing[c] > 0
    /\ capturing' = [capturing EXCEPT ![c] = @ - 1]
    /\ ev' = CEv("captureFailed", c, 0, NoMsg)
    /\ UNCHANGED <<p2pV, relayV, cli, owner, toRelay, toClient, nchan, cliV, pcs,
                   npc, streams, nstream, nview, nupset>>

\* the Stop button is shown in the share section while isSharing is true
ClickStopSharing(c) ==
    /\ isConnected[c]
    /\ isSharing[c]
    /\ Apply(stopSharing(World, c))
    /\ Pace
    /\ ev' = CEv("stopSharing", c, 0, NoMsg)
    /\ UNCHANGED <<p2pV, relayV, owner, nchan, username, npc, nstream, capturing,
                   nview>>

\* getVideoTracks()[0].onended: the capture ends by itself
TrackEnded(s) ==
    /\ streams[s].live
    /\ Apply(stopSharing([World EXCEPT !.streams[s].live = FALSE],
                         streams[s].owner))
    /\ Pace
    /\ ev' = CEv("ended", streams[s].owner, s, NoMsg)
    /\ UNCHANGED <<p2pV, relayV, owner, nchan, username, npc, nstream, capturing,
                   nview>>

\* viewUser(userId): a View button is rendered for each other user that
\* is sharing
viewUser(c, userId) ==
    /\ isConnected[c]
    /\ \E u \in users[c] : u.id = userId /\ u.isSharing /\ u.id # clientId[c]
    /\ nview < MaxView
    /\ nview' = nview + 1
    /\ Apply(sendMessage([World EXCEPT !.player[c] = TRUE], c,
                         [NoMsg EXCEPT !.type = "request-stream",
                                       !.targetId = userId]))
    /\ Pace
    /\ ev' = CEv("viewUser", c, userId, NoMsg)
    /\ UNCHANGED <<p2pV, relayV, owner, nchan, username, npc, nstream, capturing>>

\* the close button of the video player
ClickCloseVideo(c) ==
    /\ player[c]
    /\ Apply(closeVideoPlayer(World, c))
    /\ Pace
    /\ ev' = CEv("closeVideoPlayer", c, 0, NoMsg)
    /\ UNCHANGED <<p2pV, relayV, owner, nchan, username, npc, nstream, capturing,
                   nview>>

\* ws.onopen
WsOnOpen(ch) ==
    /\ owner[ch] # 0
    /\ cli[ch] = "connecting"
    /\ srv[ch] # "none"
    /\ cli' = [cli EXCEPT ![ch] = "open"]
    /\ isConnected' = [isConnected EXCEPT ![owner[ch]] = TRUE]
    /\ ev' = CEv("onopen", owner[ch], ch, NoMsg)
    /\ UNCHANGED <<p2pV, relayV, owner, toRelay, toClient, nchan, ws, clientId,
                   username, isSharing, localStream, peerConnections, users,
                   player, srcObject, rtcV>>

\* ws.onmessage
WsOnMessage(ch) ==
    /\ owner[ch] # 0
    /\ cli[ch] = "open"
    /\ toClient[ch] # << >>
    /\ LET c == owner[ch]
           message == Head(toClient[ch])
       IN  /\ NeedsPC(c, message) => npc < MaxPC
           /\ Apply(handleServerMessage([World EXCEPT !.toClient[ch] = Tail(@)],
                                        c, message, npc + 1))
           /\ npc' = IF NeedsPC(c, message) THEN npc + 1 ELSE npc
           /\ ev' = CEv("onmessage", c, ch, message)
    /\ UNCHANGED <<p2pV, relayV, owner, nchan, username, nstream, capturing, nview,
                   nupset>>

\* the connection under a socket breaks: error and close events will follow
NetFail(ch) ==
    /\ owner[ch] # 0
    /\ Listening(ch)
    /\ Upset
    /\ cli' = [cli EXCEPT ![ch] = "failed"]
    /\ toClient' = [toClient EXCEPT ![ch] = << >>]
    /\ ev' = CEv("netfail", owner[ch], ch, NoMsg)
    /\ UNCHANGED <<p2pV, relayV, owner, toRelay, nchan, cliV, pcs, npc, streams,
                   nstream, capturing, nview>>

\* ws.onerror: alert, this.disconnect()
WsOnError(ch) ==
    /\ owner[ch] # 0
    /\ cli[ch] = "failed"
    /\ Apply(disconnect([World EXCEPT !.cli[ch] = "closing"], owner[ch]))
    /\ ev' = CEv("onerror", owner[ch], ch, NoMsg)
    /\ UNCHANGED <<p2pV, relayV, owner, nchan, username, npc, nstream, capturing,
                   nview, nupset>>

\* ws.onclose: this.isConnected = false, this.cleanup()
WsOnClose(ch) ==
    /\ owner[ch] # 0
    /\ cli[ch] = "closing"
    /\ Apply(cleanup([World EXCEPT !.cli[ch] = "closed",
                                   !.isConnected[owner[ch]] = FALSE],
                     owner[ch]))
    /\ ev' = CEv("onclose", owner[ch], ch, NoMsg)
    /\ UNCHANGED <<p2pV, relayV, owner, nchan, username, npc, nstream, capturing,
                   nview, nupset>>

\* ---------------------------------------------------------- browser events
\* await pc.createOffer() resolved: setLocalDescription(offer), then the offer
\* is sent to the viewer the request came from
OfferCreated(p) ==
    /\ p \in PCs
    /\ pcs[p].stage = "offering"
    /\ LET c == pcs[p].owner
           w1 == [World EXCEPT !.pcs[p].local = TRUE, !.pcs[p].stage = "done"]
       IN  /\ Apply(sendMessage(w1, c, [NoMsg EXCEPT !.type = "offer",
                                                     !.targetId = pcs[p].key,
                                                     !.payload = p]))
           /\ ev' = CEv("offerCreated", c, p, NoMsg)
    /\ UNCHANGED <<p2pV, relayV, owner, nchan, username, npc, nstream, capturing,
                   nview, nupset>>

\* await pc.setRemoteDescription(offer) resolved: ontrack has fired
\* (remoteVideo.srcObject = event.streams[0]); createAnswer,
\* setLocalDescription(answer), and the answer is sent
AnswerCreated(p) ==
    /\ p \in PCs
    /\ pcs[p].stage = "answering"
    /\ LET c == pcs[p].owner
           w1 == [World EXCEPT !.pcs[p].local = TRUE, !.pcs[p].stage = "done",
                               !.pcs[p].inbound = "live", !.srcObject[c] = p]
       IN  /\ Apply(sendMessage(w1, c, [NoMsg EXCEPT !.type = "answer",
                                                     !.targetId = pcs[p].key,
                                                     !.payload = p]))
           /\ ev' = CEv("answerCreated", c, p, NoMsg)
    /\ UNCHANGED <<p2pV, relayV, owner, nchan, username, npc, nstream, capturing,
                   nview, nupset>>

\* pc.onicecandidate with a candidate: sent to the peer the connection is for
OnIceCandidate(p) ==
    /\ p \in PCs
    /\ pcs[p].local
    /\ pcs[p].state # "closed"
    /\ Upset
    /\ Apply(sendMessage(World, pcs[p].owner,
                         [NoMsg EXCEPT !.type = "ice-candidate",
                                       !.targetId = pcs[p].key,
                                       !.payload = p]))
    /\ ev' = CEv("icecandidate", pcs[p].owner, p, NoMsg)
    /\ UNCHANGED <<p2pV, relayV, owner, nchan, username, npc, nstream, capturing,
                   nview>>

\* pc.onconnectionstatechange.  The sharer's callback deletes the map entry
\* of its viewer on disconnected and failed (the connection is not closed);
\* the viewer's only logs.
onconnectionstatechangeMutant(w, p) ==
    IF w.pcs[p].role = "sharer" /\ w.pcs[p].state \in {"disconnected", "failed"}
      THEN ClosePeerConnections(w, w.pcs[p].owner)
      ELSE w
onconnectionstatechange(w, p) ==
    IF w.pcs[p].role = "sharer" /\ w.pcs[p].state \in {"disconnected", "failed"}
      THEN [w EXCEPT !.peerConnections[w.pcs[p].owner][w.pcs[p].key] = 0]
      ELSE w

\* the transport of p moves to state st
Transport(p, st) ==
    /\ Apply(onconnectionstatechange([World EXCEPT !.pcs[p].state = st], p))
    /\ ev' = CEv(st, pcs[p].owner, p, NoMsg)
    /\ UNCHANGED <<p2pV, relayV, owner, nchan, username, npc, nstream, capturing,
                   nview>>

\* the transport comes up.  connectionState passes through connecting on the
\* way; both callbacks only log it, so it is folded into new.
PcConnected(p) ==
    /\ p \in PCs
    /\ pcs[p].state \in {"new", "disconnected"}
    /\ Linked(p)
    /\ Transport(p, "connected")
    /\ UNCHANGED nupset

\* the transport is lost: the peer closed its end, or the network broke
Lost(p) == IF Linked(p) THEN Upset ELSE UNCHANGED nupset

PcDisconnected(p) ==
    /\ p \in PCs
    /\ pcs[p].state = "connected"
    /\ Lost(p)
    /\ Transport(p, "disconnected")

PcFailed(p) ==
    /\ p \in PCs
    /\ Started(p)
    /\ pcs[p].state \in {"new", "disconnected"}
    /\ Lost(p)
    /\ Transport(p, "failed")

\* ------------------------------------------- broker-based (PeerJS) variant
\* The second ScreenShareManager of part_004 has no relay: generateCode
\* makes a Peer, viewers call it, and the one field activeCall holds the
\* MediaConnection answered last.  PeerHost is the app that generated a code.
PeerHost == 1

\* what the handlers below never write
relayAppV == <<clients, chanId, srv, cli, owner, toRelay, toClient, nchan,
               idHigh, nsent, ws, clientId, username, isConnected,
               peerConnections, users, player, srcObject, pcs, npc, nview,
               nupset>>

\* generateCode: this.peer = new Peer(...), peer.on('call', ...)
generateCode ==
    /\ peer = "none"
    /\ peer' = "open"
    /\ ev' = CEv("generateCode", PeerHost, 0, NoMsg)
    /\ UNCHANGED <<relayAppV, isSharing, localStream, streams, nstream,
                   capturing, activeCall, calls>>

\* startSharing() up to its awaits; the Start button is shown while
\* isSharing is false
peerStartSharing ==
    /\ ~isSharing[PeerHost]
    /\ nstream < MaxStream
    /\ nstream' = nstream + 1
    /\ capturing' = [capturing EXCEPT ![PeerHost] = @ + 1]
    /\ ev' = CEv("peerStartSharing", PeerHost, 0, NoMsg)
    /\ UNCHANGED <<relayAppV, isSharing, localStream, streams, p2pV>>

\* startSharing() after getUserMedia resolved: this.localStream = stream,
\* this.isSharing = true
peerCaptured ==
    /\ capturing[PeerHost] > 0
    /\ LET s == Cardinality({ x \in Streams : streams[x].owner # 0 }) + 1
       IN  /\ streams' = [streams EXCEPT ![s] = [owner |-> PeerHost,
                                                  live |-> TRUE]]
           /\ localStream' = [localStream EXCEPT ![PeerHost] = s]
           /\ ev' = CEv("peerCaptured", PeerHost, s, NoMsg)
    /\ isSharing' = [isSharing EXCEPT ![PeerHost] = TRUE]
    /\ capturing' = [capturing EXCEPT ![PeerHost] = @ - 1]
    /\ UNCHANGED <<relayAppV, nstream, p2pV>>

\* startSharing() when the capture is refused: the catch block alerts
peerCaptureFailed ==
    /\ capturing[PeerHost] > 0
    /\ capturing' = [capturing EXCEPT ![PeerHost] = @ - 1]
    /\ ev' = CEv("peerCaptureFailed", PeerHost, 0, NoMsg)
    /\ UNCHANGED <<relayAppV, isSharing, localStream, streams, nstream, p2pV>>

\* peer.on('call'): a call is closed if the host is not sharing, answered
\* with the local stream and stored in activeCall otherwise.  Calls are
\* interchangeable, so they arrive in the order of their index.
Answer(cs, k, stream) == [cs EXCEPT ![k] = [state |-> "open", stream |-> stream]]

OnCall(k) ==
    /\ peer = "open"
    /\ calls[k].state = "none"
    /\ \A j \in Calls : j < k => calls[j].state # "none"
    /\ IF ~isSharing[PeerHost] \/ localStream[PeerHost] = 0
         THEN /\ calls' = [calls EXCEPT ![k].state = "closed"]
              /\ UNCHANGED activeCall
         ELSE /\ calls' = Answer(calls, k, localStream[PeerHost])
              /\ activeCall' = k
    /\ ev' = CEv("call", PeerHost, k, NoMsg)
    /\ UNCHANGED <<relayAppV, isSharing, localStream, streams, nstream,
                   capturing, peer>>

\* the viewer's end closes the call (its closeVideoPlayer); the host has no
\* handler for it and activeCall keeps the closed call
CallClosed(k) ==
    /\ calls[k].state = "open"
    /\ calls' = [calls EXCEPT ![k].state = "closed"]
    /\ ev' = CEv("callClosed", PeerHost, k, NoMsg)
    /\ UNCHANGED <<relayAppV, isSharing, localStream, streams, nstream,
                   capturing, peer, activeCall>>

\* stopSharing of the variant: stop the tracks, close activeCall
CloseActiveCall(cs, a) ==
    IF a # 0 THEN [cs EXCEPT ![a].state = "closed"] ELSE cs

peerStopSharing(w) ==
    /\ Apply([StopLocalStream(w, PeerHost) EXCEPT !.isSharing[PeerHost] = FALSE])
    /\ calls' = CloseActiveCall(calls, activeCall)
    /\ activeCall' = 0

\* the Stop button is shown while isSharing is true
peerClickStop ==
    /\ isSharing[PeerHost]
    /\ peerStopSharing(World)
    /\ ev' = CEv("peerStop", PeerHost, 0, NoMsg)
    /\ UNCHANGED <<relayV, owner, nchan, username, npc, nstream, capturing,
                   nview, nupset, peer>>

\* getVideoTracks()[0].onended of the variant
peerTrackEnded(s) ==
    /\ streams[s].live
    /\ streams[s].owner = PeerHost
    /\ peerStopSharing([World EXCEPT !.streams[s].live = FALSE])
    /\ ev' = CEv("peerEnded", PeerHost, s, NoMsg)
    /\ UNCHANGED <<relayV, owner, nchan, username, npc, nstream, capturing,
                   nview, nupset, peer>>


\* ------------------------------------------------------------ specification
Init ==
    /\ clients = [i \in Ids |-> NoSession]
    /\ chanId = [ch \in Chans |-> 0]
    /\ srv = [ch \in Chans |-> "none"]
    /\ cli = [ch \in Chans |-> "none"]
    /\ owner = [ch \in Chans |-> 0]
    /\ toRelay = [ch \in Chans |-> << >>]
    /\ toClient = [ch \in Chans |-> << >>]
    /\ nchan = 0
    /\ idHigh = 0
    /\ nsent = 0
    /\ ev = NoEv
    /\ ws = [c \in Cl |-> 0]
    /\ clientId = [c \in Cl |-> 0]
    /\ username = [c \in Cl |-> ""]
    /\ isConnected = [c \in Cl |-> FALSE]
    /\ isSharing = [c \in Cl |-> FALSE]
    /\ localStream = [c \in Cl |-> 0]
    /\ peerConnections = [c \in Cl |-> [i \in Ids |-> 0]]
    /\ users = [c \in Cl |-> {}]
    /\ player = [c \in Cl |-> FALSE]
    /\ srcObject = [c \in Cl |-> 0]
    /\ pcs = [p \in PCs |-> NoPC]
    /\ npc = 0
    /\ streams = [x \in Streams |-> NoStream]
    /\ nstream = 0
    /\ capturing = [c \in Cl |-> 0]
    /\ nview = 0
    /\ nupset = 0
    /\ peer = "none"
    /\ activeCall = 0
    /\ calls = [k \in Calls |-> NoCall]

NextRelay ==
    \/ RawConnect
    \/ \E ch \in Chans, m \in RawMsgs : RawMessage(ch, m)
    \/ \E ch \in Chans : RawClose(ch)
    \/ \E ch \in Chans : OnConnection(ch)
    \/ \E ch \in Chans : OnError(ch)
    \/ \E ch \in Chans : OnClose(ch)

SpecRelay == Init /\ [][NextRelay]_vars

\* The relay and NumClients running apps.  The whole system is explored in
\* three parts, each with the users doing one kind of thing.

\* the socket, message and capture steps every part has
NextCommon ==
    \/ \E c \in Cl, n \in Names : connect(c, n)
    \/ \E c \in Cl : Captured(c)
    \/ \E c \in Cl : CaptureFailed(c)
    \/ \E x \in Streams : TrackEnded(x)
    \/ \E ch \in Chans : WsOnOpen(ch)
    \/ \E ch \in Chans : WsOnMessage(ch)
    \/ \E ch \in Chans : OnConnection(ch)
    \/ \E ch \in Chans : OnMessage(ch)

\* the steps of a negotiation and of its transport
NextLinks ==
    \/ \E p \in PCs : OfferCreated(p)
    \/ \E p \in PCs : AnswerCreated(p)
    \/ \E p \in PCs : OnIceCandidate(p)
    \/ \E p \in PCs : PcConnected(p)
    \/ \E p \in PCs : PcDisconnected(p)
    \/ \E p \in PCs : PcFailed(p)

\* users come and go, one of them shares; nobody views
DirectorySharers == {1}

NextDirectory ==
    \/ NextCommon
    \/ \E c \in Cl : ClickDisconnect(c)
    \/ \E c \in DirectorySharers : startSharing(c)
    \/ \E c \in DirectorySharers : ClickStopSharing(c)
    \/ \E ch \in Chans : NetFail(ch)
    \/ \E ch \in Chans : WsOnError(ch)
    \/ \E ch \in Chans : WsOnClose(ch)
    \/ \E ch \in Chans : SrvClosing(ch)
    \/ \E ch \in Chans : OnError(ch)
    \/ \E ch \in Chans : OnClose(ch)

SpecDirectory == Init /\ [][NextDirectory]_vars

\* one app shares, the others view it
FanOutSharers == {1}
FanOutViewers == Cl \ FanOutSharers

NextFanOut ==
    \/ NextCommon
    \/ NextLinks
    \/ \E c \in FanOutSharers : startSharing(c)
    \/ \E c \in FanOutSharers : ClickStopSharing(c)
    \/ \E c \in FanOutViewers, u \in Ids : viewUser(c, u)
    \/ \E c \in FanOutViewers : ClickCloseVideo(c)

SpecFanOut == Init /\ [][NextFanOut]_vars

\* one app views, the others share
ViewsViewers == {NumClients}
ViewsSharers == Cl \ ViewsViewers

NextViews ==
    \/ NextCommon
    \/ NextLinks
    \/ \E c \in ViewsSharers : startSharing(c)
    \/ \E c \in ViewsSharers : ClickStopSharing(c)
    \/ \E c \in ViewsViewers, u \in Ids : viewUser(c, u)
    \/ \E c \in ViewsViewers : ClickCloseVideo(c)

SpecViews == Init /\ [][NextViews]_vars


\* the connection p was negotiated with has been closed
PeerClosed(p) == pcs[p].remote \in PCs /\ pcs[pcs[p].remote].state = "closed"

\* one sharer and one viewer; a transport is lost only when the other end
\* is closed; what runs by itself
\* (delivery, the relay, the browser's callbacks) is not left waiting for ever
HandshakeSharers == {1}
HandshakeViewers == {2}
HandshakeApps == HandshakeSharers \cup HandshakeViewers

HandshakeSteps ==
    \/ \E ch \in Chans : OnConnection(ch)
    \/ \E ch \in Chans : OnMessage(ch)
    \/ \E ch \in Chans : WsOnOpen(ch)
    \/ \E ch \in Chans : WsOnMessage(ch)
    \/ \E p \in PCs : OfferCreated(p)
    \/ \E p \in PCs : AnswerCreated(p)
    \/ \E p \in PCs : PcConnected(p)

NextHandshake ==
    \/ HandshakeSteps
    \/ \E c \in HandshakeApps, n \in Names : connect(c, n)
    \/ \E c \in Cl : Captured(c)
    \/ \E c \in Cl : CaptureFailed(c)
    \/ \E x \in Streams : TrackEnded(x)
    \/ \E c \in HandshakeSharers : startSharing(c)
    \/ \E c \in HandshakeSharers : ClickStopSharing(c)
    \/ \E c \in HandshakeViewers, u \in Ids : viewUser(c, u)
    \/ \E c \in HandshakeViewers : ClickCloseVideo(c)
    \/ \E p \in PCs : PeerClosed(p) /\ PcDisconnected(p)
    \/ \E p \in PCs : PeerClosed(p) /\ PcFailed(p)

FairHandshake ==
    Init /\ [][NextHandshake]_vars /\ WF_vars(HandshakeSteps)


\* one sharer and one viewer, as before; what runs by itself now includes
\* the loss of a transport whose other end is closed
DepartureSteps ==
    \/ HandshakeSteps
    \/ \E p \in PCs : PeerClosed(p) /\ PcDisconnected(p)
    \/ \E p \in PCs : PeerClosed(p) /\ PcFailed(p)

FairDeparture ==
    Init /\ [][NextHandshake]_vars /\ WF_vars(DepartureSteps)
\* two apps, each of which may share and may view the other
MutualApps == {1, 2}

NextMutual ==
    \/ NextLinks
    \/ \E c \in MutualApps, n \in Names : connect(c, n)
    \/ \E c \in Cl : Captured(c)
    \/ \E c \in Cl : CaptureFailed(c)
    \/ \E x \in Streams : TrackEnded(x)
    \/ \E ch \in Chans : WsOnOpen(ch)
    \/ \E ch \in Chans : WsOnMessage(ch)
    \/ \E ch \in Chans : OnConnection(ch)
    \/ \E ch \in Chans : OnMessage(ch)
    \/ \E c \in MutualApps : startSharing(c)
    \/ \E c \in MutualApps : ClickStopSharing(c)
    \/ \E c \in MutualApps, u \in Ids : viewUser(c, u)
    \/ \E c \in MutualApps : ClickCloseVideo(c)

SpecMutual == Init /\ [][NextMutual]_vars

\* one sharer and one viewer; the sharer may stop, its capture may end, it
\* may disconnect, and the sockets close on both sides
NextLeave ==
    \/ HandshakeSteps
    \/ \E c \in HandshakeApps, n \in Names : connect(c, n)
    \/ \E c \in Cl : Captured(c)
    \/ \E c \in Cl : CaptureFailed(c)
    \/ \E x \in Streams : TrackEnded(x)
    \/ \E c \in HandshakeSharers : startSharing(c)
    \/ \E c \in HandshakeSharers : ClickStopSharing(c)
    \/ \E c \in HandshakeSharers : ClickDisconnect(c)
    \/ \E c \in HandshakeViewers, u \in Ids : viewUser(c, u)
    \/ \E ch \in Chans : WsOnClose(ch)
    \/ \E ch \in Chans : SrvClosing(ch)
    \/ \E ch \in Chans : OnError(ch)
    \/ \E ch \in Chans : OnClose(ch)
    \/ \E p \in PCs : PeerClosed(p) /\ PcDisconnected(p)
    \/ \E p \in PCs : PeerClosed(p) /\ PcFailed(p)

SpecLeave == Init /\ [][NextLeave]_vars

\* the host of the broker-based variant and the calls that reach it
NextP2P ==
    \/ generateCode
    \/ peerStartSharing
    \/ peerCaptured
    \/ peerCaptureFailed
    \/ \E k \in Calls : OnCall(k)
    \/ \E k \in Calls : CallClosed(k)
    \/ peerClickStop
    \/ \E s \in Streams : peerTrackEnded(s)

SpecP2P == Init /\ [][NextP2P]_vars


\* ================================================================== claims
\* ev names the handler that ran last, its input (ev.msg), the directory it
\* found (ev.pre) and the frames it wrote (ev.out); every action writes ev,
\* so a property of one handler is an invariant guarded by ev.

\* C1  Gated stream requests: a request-stream whose target is not in the
\* directory, or is there with isSharing = false, makes the relay write
\* nothing to any channel (no stream-request, no error to the requester)
\* and leaves the directory unchanged.
C1_GatedStreamRequests ==
    (/\ ev.op = "message"
     /\ ev.msg.type = "request-stream"
     /\ ~(Has(ev.pre, ev.msg.targetId) /\ ev.pre[ev.msg.targetId].isSharing))
    => (ev.out = << >> /\ clients = ev.pre)

\* a request-stream for a registered, non-sharing target of another open
\* channel was handled
C1_Witness ==
    /\ ev.op = "message"
    /\ ev.msg.type = "request-stream"
    /\ Has(ev.pre, ev.id)
    /\ Has(ev.pre, ev.msg.targetId)
    /\ ~ev.pre[ev.msg.targetId].isSharing
    /\ ev.pre[ev.msg.targetId].ws # ev.ch
    /\ srv[ev.pre[ev.msg.targetId].ws] = "open"

\* C2  Targeted routing: an offer, answer or ice-candidate is written to at
\* most one channel, the one the directory holds for targetId (whose assigned
\* id is targetId); no other channel gets anything, and with no session for
\* targetId nothing is written at all.
C2_TargetedRouting ==
    (ev.op = "message" /\ ev.msg.type \in Routed)
    => LET t == ev.msg.targetId
           out == ev.out
       IN  /\ Len(out) <= 1
           /\ \A i \in 1..Len(out) :
                 /\ Has(ev.pre, t)
                 /\ out[i].ws = ev.pre[t].ws
                 /\ chanId[out[i].ws] = t
           /\ (~Has(ev.pre, t) => out = << >>)
           /\ clients = ev.pre

\* an offer went to its target while the sender and a third channel were open
C2_Witness ==
    /\ ev.op = "message"
    /\ ev.msg.type = "offer"
    /\ Len(ev.out) = 1
    /\ ev.out[1].ws # ev.ch
    /\ \E x \in Chans : x # ev.ch /\ x # ev.out[1].ws /\ srv[x] = "open"
                          /\ Has(clients, chanId[x]) /\ clients[chanId[x]].ws = x

\* C3  Sender stamping: what the relay forwards is the incoming message with
\* senderId replaced by the id assigned to the channel it came in on, every
\* other field as received.
C3_SenderStamping ==
    (ev.op = "message" /\ ev.msg.type \in Routed)
    => \A i \in 1..Len(ev.out) :
          /\ ev.out[i].data.senderId = chanId[ev.ch]
          /\ ev.out[i].data = [ev.msg EXCEPT !.senderId = chanId[ev.ch]]

\* a message that came in claiming another senderId was forwarded to a peer
C3_Witness ==
    /\ ev.op = "message"
    /\ ev.msg.type \in Routed
    /\ ev.msg.senderId # 0
    /\ ev.msg.senderId # chanId[ev.ch]
    /\ Len(ev.out) = 1
    /\ ev.out[1].ws # ev.ch

C10_UniqueIds ==
    /\ \A a, b \in Chans :
         (a # b /\ srv[a] = "open" /\ srv[b] = "open") => chanId[a] # chanId[b]
    /\ (ev.op = "connection" => ~Has(ev.pre, ev.id))

\* the app shows itself connected and its socket is open
Connected(c) == isConnected[c] /\ ws[c] # 0 /\ cli[ws[c]] = "open"

\* ... and the directory holds the session of that socket
Registered(c) ==
    /\ Connected(c)
    /\ Has(clients, chanId[ws[c]])
    /\ clients[chanId[ws[c]]].ws = ws[c]

\* p is in the link set of the app that created it
InMap(p) == \E k \in Ids : peerConnections[pcs[p].owner][k] = p

RelayOps == {"connection", "message", "error", "close"}

\* C4  Directory consistency: every user-list the relay writes carries the
\* directory as it is when the handler that wrote it ends (id, username,
\* isSharing of every session); a client that handles a user-list holds its
\* users afterwards, and its cached list changes in no other way except
\* that leaving (disconnect, close of the socket) empties it; so when nothing
\* is in flight, every connected client whose session the directory holds
\* has the directory as its cached list.
C4_Snapshot ==
    /\ ev.op \in RelayOps =>
          \A i \in 1..Len(ev.out) :
             ev.out[i].data.type = "user-list"
                => ev.out[i].data.users = UserList(clients)
    /\ (ev.op = "onmessage" /\ ev.msg.type = "user-list")
          => users[ev.ch] = ev.msg.users
    /\ Quiet => \A c \in Cl : Registered(c) => users[c] = UserList(clients)

C4_CacheSteps ==
    \A c \in Cl :
       users'[c] # users[c] =>
          \/ /\ ev'.op = "onmessage"
             /\ ev'.ch = c
             /\ ev'.msg.type = "user-list"
             /\ users'[c] = ev'.msg.users
          \/ users'[c] = {} /\ ~isConnected'[c]

\* C4  Directory consistency: the snapshot holds in every state and the
\* cached list changes only by the steps above.
C4_DirectoryConsistency == [](C4_Snapshot) /\ [][C4_CacheSteps]_vars

\* C5  Teardown completeness: when stopSharing() has returned, every link
\* the sharer created is closed, whatever happened to it before
\* (disconnected, failed, negotiation not finished), and localStream is
\* cleared.
C5_TeardownComplete ==
    ev.op \in {"stopSharing", "ended"} =>
       /\ \A p \in PCs :
            (pcs[p].owner = ev.ch /\ pcs[p].role = "sharer")
               => pcs[p].state = "closed"
       /\ localStream[ev.ch] = 0

\* C6  At most one concurrent view: an app never holds two viewing links
\* that are both connected.
C6_OneView ==
    \A p, q \in PCs :
       (/\ p # q
        /\ pcs[p].owner = pcs[q].owner
        /\ pcs[p].role = "viewer" /\ pcs[q].role = "viewer"
        /\ InMap(p) /\ InMap(q))
       => ~(pcs[p].state = "connected" /\ pcs[q].state = "connected")

\* C7  Fan-out independence: when the link of a sharer to one viewer
\* disconnects or fails, or a viewer closes its end, the sharer's links to
\* every other viewer keep their connectionState and stay in, or out of,
\* the sharer's link set as they were.
C7_Others(p) ==
    { q \in PCs : /\ q # p
                  /\ pcs[q].role = "sharer"
                  /\ pcs[q].owner = pcs[p].owner
                  /\ pcs[q].key # pcs[p].key }

C7_Step ==
    /\ \A p \in PCs :
         (/\ ev'.op \in {"disconnected", "failed"}
          /\ ev'.id = p
          /\ pcs[p].role = "sharer")
         => \A q \in C7_Others(p) :
               /\ pcs'[q] = pcs[q]
               /\ InMap(q)' = InMap(q)
    /\ ev'.op = "closeVideoPlayer"
         => \A q \in PCs :
               (pcs[q].role = "sharer" /\ pcs[q].owner # ev'.ch)
                  => (pcs'[q] = pcs[q] /\ InMap(q)' = InMap(q))

C8_Asked(s, v) ==
    /\ ev.op = "viewUser"
    /\ ev.ch = v
    /\ Registered(s)
    /\ Registered(v)
    /\ ev.id = chanId[ws[s]]
    /\ chanId[ws[v]] # ev.id
    /\ isSharing[s]
    /\ clients[ev.id].isSharing

C8_Served(s, v) ==
    \/ ~isSharing[s]
    \/ ~player[v]
    \/ \E p \in PCs : /\ pcs[p].owner = s
                      /\ pcs[p].role = "sharer"
                      /\ pcs[p].state = "connected"
                      /\ pcs[p].remote \in PCs
                      /\ pcs[pcs[p].remote].owner = v

\* C8  Basic handshake liveness: a request that was asked is served.
C8_HandshakeLiveness ==
    \A s \in HandshakeSharers, v \in HandshakeViewers :
       C8_Asked(s, v) ~> C8_Served(s, v)

\* the frames of out written to channel x
SentTo(out, x) == { i \in 1..Len(out) : out[i].ws = x }

\* the session the directory holds is the one of the channel the frame came
\* in on
OwnSession(cl, id, ch) == Has(cl, id) /\ cl[id].ws = ch

C11_Control == {"set-username", "start-sharing", "stop-sharing"}

\* C11  One broadcast per control message: a set-username, start-sharing or
\* stop-sharing handled for a channel whose session the directory holds makes
\* the relay write exactly one user-list to every channel that is open, and
\* nothing else; the user-list carries the whole directory as the message
\* left it.
C11_OneBroadcast ==
    (/\ ev.op = "message"
     /\ ev.msg.type \in C11_Control
     /\ OwnSession(ev.pre, ev.id, ev.ch))
    => /\ \A i \in 1..Len(ev.out) : ev.out[i].data = UserListMsg(clients)
       /\ \A x \in Chans :
             Cardinality(SentTo(ev.out, x)) = (IF srv[x] = "open" THEN 1 ELSE 0)

\* C12  Departure handling: when the relay has handled the close or error
\* event of a channel, the directory holds no session for it, every channel
\* still open has been written exactly one user-list, without the departed
\* id in it, nothing else was written; and no handler ever writes a frame
\* to a channel whose close or error event has been handled.
C12_Departure ==
    /\ ev.op \in {"error", "close"}
       => /\ ~Has(clients, ev.id)
          /\ \A i \in Ids : clients[i].ws # ev.ch
          /\ \A i \in 1..Len(ev.out) :
                /\ ev.out[i].data = UserListMsg(clients)
                /\ \A u \in ev.out[i].data.users : u.id # ev.id
          /\ \A x \in Chans :
                Cardinality(SentTo(ev.out, x)) = (IF srv[x] = "open" THEN 1 ELSE 0)
    /\ \A i \in 1..Len(ev.out) : srv[ev.out[i].ws] \notin {"errored", "closed"}

\* C13  Late-join broadcast: a session that is in the directory with
\* isSharing = true when a new channel is accepted is in the first user-list
\* written to the new channel, with isSharing = true and its username.
C13_LateJoin ==
    ev.op = "connection"
    => \A i \in Ids :
          (Has(ev.pre, i) /\ ev.pre[i].isSharing)
          => LET first == { k \in SentTo(ev.out, ev.ch) :
                              ev.out[k].data.type = "user-list" }
             IN  /\ first # {}
                 /\ \A k \in first :
                       [id |-> i, username |-> ev.pre[i].username,
                        isSharing |-> TRUE] \in ev.out[k].data.users

\* C16  Malformed input is tolerated: a frame that does not parse, or whose
\* type is not a known one, leaves the directory as it was, makes the relay
\* write nothing, and leaves the channel open and its session in the
\* directory, so the next frame on it is handled as any other.
C16_Tolerated ==
    (ev.op = "message" /\ ev.msg.type \in {"malformed", "bogus"})
    => /\ clients = ev.pre
       /\ ev.out = << >>
       /\ srv[ev.ch] = "open"
       /\ chanId[ev.ch] = ev.id

\* a frame of unknown type came in on a channel whose session the directory
\* holds, while another channel was open
C16_Witness ==
    /\ ev.op = "message"
    /\ ev.msg.type \in {"malformed", "bogus"}
    /\ OwnSession(clients, ev.id, ev.ch)
    /\ \E x \in Chans : x # ev.ch /\ srv[x] = "open"

\* the relay's isSharing flag of the session of channel ch
RelayFlag(ch) ==
    OwnSession(clients, chanId[ch], ch) /\ clients[chanId[ch]].isSharing

\* C14  Relay sharing flag matches the client: in every state, if the
\* directory's session of a client's channel has isSharing = true, the
\* client holds a local stream and its own isSharing is true.
C14_FlagMatches ==
    \A ch \in Chans :
       (owner[ch] # 0 /\ RelayFlag(ch))
       => (localStream[owner[ch]] # 0 /\ isSharing[owner[ch]])

\* C15  Capture failure is never announced: when startSharing ends in its
\* catch block (no capture API, no source, getUserMedia rejected and no
\* second source that works), no frame is written to the relay, isSharing and
\* localStream of the client are as they were (false and unset unless an
\* earlier call succeeded), and the directory is unchanged.
C15_Step ==
    ev'.op = "captureFailed"
    => /\ toRelay' = toRelay
       /\ isSharing'[ev'.ch] = isSharing[ev'.ch]
       /\ localStream'[ev'.ch] = localStream[ev'.ch]
       /\ streams' = streams
       /\ clients' = clients

\* C15  Capture failure is never announced: no step that ends a capture in
\* failure writes a frame or changes isSharing, localStream or the directory.
C15_NeverAnnounced == [][C15_Step]_vars

\* a capture failed for a connected client that was not sharing, while its
\* session was in the directory
C15_Witness ==
    /\ ev.op = "captureFailed"
    /\ Registered(ev.ch)
    /\ ~isSharing[ev.ch]
    /\ localStream[ev.ch] = 0
    /\ ~clients[chanId[ws[ev.ch]]].isSharing

\* C17  Failed links are removed locally: when the connectionState of a
\* link becomes failed, the app that created it (as sharer or as viewer) no
\* longer has it in its link set, writes nothing to the relay, and its other
\* links keep their state and stay in, or out of, the link set as they were.
C17_Step ==
    \A p \in PCs :
       (ev'.op = "failed" /\ ev'.id = p)
       => /\ ~InMap(p)'
          /\ toRelay' = toRelay
          /\ \A q \in PCs \ {p} : pcs'[q] = pcs[q] /\ InMap(q)' = InMap(q)

\* C17  Failed links are removed locally: every step that takes a link to
\* failed removes it from its owner's link set, silently, and only it.
C17_FailedRemoved == [][C17_Step]_vars

\* the app whose offer the viewing link p answers is no longer sharing (it
\* stopped, or it left: disconnect and the close of its socket stop sharing)
C18_Left(p) ==
    /\ pcs[p].role = "viewer"
    /\ pcs[p].remote \in PCs
    /\ ~isSharing[pcs[pcs[p].remote].owner]

C18_TornDown(p) == pcs[p].state = "closed" /\ ~InMap(p)

\* viewer v has a link to a sharer that left which is not torn down
C18_Holds(v) ==
    \E p \in PCs : pcs[p].owner = v /\ C18_Left(p) /\ ~C18_TornDown(p)

\* C18  Sharer departure tears down viewer links: once the sharer has
\* stopped sharing or its channel has closed, the links a viewer holds to
\* it come to be closed and out of the viewer's link set, by the viewer's
\* own callbacks (connection state, user-list), with no user action needed.
C18_DepartureTearsDown ==
    \A v \in HandshakeViewers : C18_Holds(v) ~> ~C18_Holds(v)

\* C19  closeView teardown: when closeVideoPlayer() has returned, every
\* viewing link the app created is closed, finished negotiating or not, no
\* inbound track of a stream it rendered is live, and the video element
\* shows nothing.
C19_CloseView ==
    ev.op = "closeVideoPlayer"
    => /\ \A p \in PCs :
            (pcs[p].owner = ev.ch /\ pcs[p].role = "viewer")
            => (pcs[p].state = "closed" /\ pcs[p].inbound # "live")
       /\ srcObject[ev.ch] = 0

\* the offer of link p
OfferOf(p) ==
    [NoMsg EXCEPT !.type = "offer", !.targetId = pcs[p].key, !.payload = p]

\* C20  Non-blocking fan-out: a stream-request handled while the app shares
\* starts a negotiation for the viewer that asked (a new link under its id,
\* waiting for createOffer) and writes nothing yet; when createOffer resolves
\* exactly one offer, addressed to that viewer, is written to the relay and
\* the link waits for no further offer.  Neither step looks at the other
\* links: whatever their state, a stream-request in the queue can be handled
\* and a link waiting for its offer can send it.
C20_Step ==
    /\ (/\ ev'.op = "onmessage"
        /\ ev'.msg.type = "stream-request"
        /\ isSharing[ev'.ch]
        /\ localStream[ev'.ch] # 0)
       => /\ npc' = npc + 1
          /\ pcs'[npc'] = [NoPC EXCEPT !.owner = ev'.ch, !.role = "sharer",
                                       !.key = ev'.msg.viewerId,
                                       !.state = "new", !.stage = "offering"]
          /\ peerConnections'[ev'.ch][ev'.msg.viewerId] = npc'
          /\ \A q \in PCs \ {npc'} : pcs'[q] = pcs[q]
          /\ toRelay' = toRelay
    /\ \A p \in PCs :
          (ev'.op = "offerCreated" /\ ev'.id = p)
          => /\ pcs[p].stage = "offering"
             /\ pcs'[p].stage = "done"
             /\ ws[pcs[p].owner] # 0
             /\ toRelay' = [toRelay EXCEPT ![ws[pcs[p].owner]] =
                                              Append(@, OfferOf(p))]

C20_Ready ==
    /\ \A p \in PCs : pcs[p].stage = "offering" => ENABLED OfferCreated(p)
    /\ \A ch \in Chans :
          (owner[ch] # 0 /\ cli[ch] = "open" /\ toClient[ch] # << >>)
          => ENABLED WsOnMessage(ch)

\* C20  Non-blocking fan-out: every stream-request handled while sharing
\* leads to one offer for its viewer, and neither step can be held up by
\* another link.
C20_NonBlocking == [](C20_Ready) /\ [][C20_Step]_vars

\* the offer to one viewer was sent while the offer to another viewer was
\* still unanswered
C20_Witness ==
    /\ ev.op = "offerCreated"
    /\ ev.id \in PCs
    /\ \E q \in PCs : /\ q # ev.id
                      /\ pcs[q].owner = pcs[ev.id].owner
                      /\ pcs[q].role = "sharer"
                      /\ pcs[q].key # pcs[ev.id].key
                      /\ pcs[q].local
                      /\ pcs[q].remote = 0
                      /\ pcs[q].state = "new"

\* link p exists and pc.close() was not called on it
Open(p) == pcs[p].owner # 0 /\ pcs[p].state # "closed"

\* C21  One PeerLink per (sharer, viewer) pair: a sharer never has two
\* links for the same viewer id that are both un-closed, also after repeated
\* stream-requests from one viewer.
C21_OneLinkPerViewer ==
    \A p, q \in PCs :
       (/\ p # q
        /\ pcs[p].role = "sharer" /\ pcs[q].role = "sharer"
        /\ pcs[p].owner = pcs[q].owner
        /\ pcs[p].key = pcs[q].key)
       => ~(Open(p) /\ Open(q))

\* the frames of out written to channel x, in the order they were written
RECURSIVE FramesFor(_, _)
FramesFor(out, x) ==
    IF out = << >> THEN << >>
    ELSE (IF Head(out).ws = x THEN << Head(out).data >> ELSE << >>)
         \o FramesFor(Tail(out), x)

\* what a control message does to the directory
C22_Mutation(cl, id, message) ==
    CASE message.type = "set-username" -> SetUsername(cl, id, message)
      [] message.type = "start-sharing" -> SetSharing(cl, id, TRUE)
      [] message.type = "stop-sharing" -> SetSharing(cl, id, FALSE)
      [] OTHER -> cl

\* C22  Per-channel broadcast order: the relay takes the frames of a channel
\* in the order the client wrote them; one handler applies the mutation of
\* one control message to the directory it found and writes the user-list of
\* exactly that directory, nothing coming in between; and what it writes to
\* a channel goes behind everything written to that channel before.  So the
\* user-list of m1 is in front of the user-list of m2 in every queue.
C22_Step ==
    /\ ev'.op = "message"
       => /\ toRelay[ev'.ch] # << >>
          /\ ev'.msg = Head(toRelay[ev'.ch])
          /\ toRelay' = [toRelay EXCEPT ![ev'.ch] = Tail(@)]
          /\ (ev'.msg.type \in C11_Control /\ Has(clients, ev'.id))
             => /\ ev'.pre = clients
                /\ clients' = C22_Mutation(clients, ev'.id, ev'.msg)
                /\ \A i \in 1..Len(ev'.out) :
                      ev'.out[i].data = UserListMsg(clients')
    /\ ev'.op \in RelayOps
       => \A x \in Chans :
             toClient'[x] = IF Queued(x)
                              THEN toClient[x] \o FramesFor(ev'.out, x)
                              ELSE toClient[x]
    /\ \A x \in Chans :
          (ev'.op \notin RelayOps /\ toRelay'[x] # toRelay[x])
          => \/ toRelay'[x] = << >>
             \/ \E message \in {[NoMsg EXCEPT !.type = "set-username",
                                              !.username = username[owner[x]]],
                                [NoMsg EXCEPT !.type = "start-sharing"],
                                [NoMsg EXCEPT !.type = "stop-sharing"]} :
                   toRelay'[x] = Append(toRelay[x], message)
    /\ ev'.op = "onmessage"
       => /\ toClient[ev'.id] # << >>
          /\ ev'.msg = Head(toClient[ev'.id])

\* C22  Per-channel broadcast order: every step keeps the order of the
\* frames and handles one control message whole.
C22_BroadcastOrder == [][C22_Step]_vars

\* the relay handled a client's stop-sharing while the user-list of the same
\* client's start-sharing was still waiting in that client's queue
C22_Witness ==
    /\ ev.op = "message"
    /\ ev.msg.type = "stop-sharing"
    /\ Len(ev.out) >= 1
    /\ \E x \in Chans :
          /\ Len(toClient[x]) >= 2
          /\ toClient[x][Len(toClient[x])] = UserListMsg(clients)
          /\ toClient[x][Len(toClient[x]) - 1] =
                UserListMsg(SetSharing(clients, ev.id, TRUE))

\* C23  Stream-request while not sharing is ignored: a stream-request
\* handled by a client whose isSharing is false or whose localStream is unset
\* creates no link, changes no link and no link set, and writes no frame (no
\* offer, no ice-candidate) to the relay.
C23_Step ==
    (/\ ev'.op = "onmessage"
     /\ ev'.msg.type = "stream-request"
     /\ (~isSharing[ev'.ch] \/ localStream[ev'.ch] = 0))
    => /\ pcs' = pcs
       /\ peerConnections' = peerConnections
       /\ toRelay' = toRelay

\* C23  Stream-request while not sharing is ignored, in every step.
C23_IgnoredWhenNotSharing == [][C23_Step]_vars

\* a stream-request the relay forwarded before it handled the stop-sharing
\* was handled by a client that had stopped sharing
C23_Witness ==
    /\ ev.op = "onmessage"
    /\ ev.msg.type = "stream-request"
    /\ ~isSharing[ev.ch]
    /\ localStream[ev.ch] = 0
    /\ \A p \in PCs : pcs[p].owner = ev.ch => pcs[p].state = "closed"

\* C24  Inbound negotiation messages reach only the matching link: an answer
\* or ice-candidate from senderId x touches only the link stored under x;
\* with no link under x it changes nothing; it never creates a link or writes
\* a frame; and an ice-candidate for a link that is not closed is added to
\* it, whether the link has its answer already or not.
C24_Step ==
    (ev'.op = "onmessage" /\ ev'.msg.type \in {"answer", "ice-candidate"})
    => LET c == ev'.ch
           p == peerConnections[c][ev'.msg.senderId]
       IN  /\ peerConnections' = peerConnections
           /\ toRelay' = toRelay
           /\ npc' = npc
           /\ \A q \in PCs \ {p} : pcs'[q] = pcs[q]
           /\ p # 0 => pcs[p].key = ev'.msg.senderId
           /\ (p # 0 /\ ev'.msg.type = "answer")
              => \/ pcs'[p] = [pcs[p] EXCEPT !.remote = ev'.msg.payload]
                 \/ pcs'[p] = pcs[p]
           /\ (p # 0 /\ Open(p) /\ ev'.msg.type = "ice-candidate")
              => pcs'[p] = [pcs[p] EXCEPT !.cands = @ + 1]

\* C24  Inbound negotiation messages reach only the matching link, in every
\* step, and a candidate is added before or after the answer.
C24_MatchingLink == [][C24_Step]_vars

\* apps a and b are registered under different ids and both share
C25_Mutual(a, b) ==
    /\ a # b
    /\ Registered(a) /\ Registered(b)
    /\ chanId[ws[a]] # chanId[ws[b]]
    /\ clientId[a] = chanId[ws[a]] /\ clientId[b] = chanId[ws[b]]
    /\ isSharing[a] /\ isSharing[b]

\* C25  Role separation under mutual sharing: when A and B both share and A
\* handles B's offer, every un-closed link A holds as sharer stays in A's
\* link set (the new viewing link replaces none of them, also not the one
\* to B); and when A handles B's answer, it is handed to a link A holds
\* as sharer.
C25_Step ==
    \A a, b \in Cl :
       (/\ C25_Mutual(a, b)
        /\ ev'.op = "onmessage"
        /\ ev'.ch = a
        /\ ev'.msg.senderId = chanId[ws[b]])
       => /\ ev'.msg.type = "offer"
             => \A q \in PCs :
                   (pcs[q].owner = a /\ pcs[q].role = "sharer" /\ Open(q))
                   => InMap(q)' = InMap(q)
          /\ ev'.msg.type = "answer"
             => LET p == peerConnections[a][ev'.msg.senderId]
                IN  p # 0 => pcs[p].role = "sharer"

\* C25  Role separation under mutual sharing, in every step.
C25_RoleSeparation == [][C25_Step]_vars

\* C26  closeView leaves sharer-role links untouched: closeVideoPlayer()
\* changes no link the client holds as sharer (connectionState, membership
\* in the link set), nor its isSharing, nor its local stream.
C26_Step ==
    ev'.op = "closeVideoPlayer"
    => /\ \A q \in PCs :
             (pcs[q].owner = ev'.ch /\ pcs[q].role = "sharer")
             => (pcs'[q] = pcs[q] /\ InMap(q)' = InMap(q))
       /\ isSharing' = isSharing
       /\ localStream' = localStream
       /\ streams' = streams

\* C26  closeView leaves sharer-role links untouched, in every step.
C26_CloseViewFrame == [][C26_Step]_vars

\* C27  No unsolicited viewing link: an offer handled by a client that has
\* no view requested (it sent no request-stream, or closed the player since)
\* creates no link, and no answer is sent for it.
C27_Step ==
    /\ (ev'.op = "onmessage" /\ ev'.msg.type = "offer" /\ ~player[ev'.ch])
       => (pcs' = pcs /\ peerConnections' = peerConnections)
    /\ \A p \in PCs :
          (ev'.op = "answerCreated" /\ ev'.id = p) => player[pcs[p].owner]

\* C27  No unsolicited viewing link, in every step.
C27_NoUnsolicitedLink == [][C27_Step]_vars

\* the handlers that end in stopSharing() when the client shares
C28_Stops == {"stopSharing", "ended", "disconnect", "onerror", "onclose"}

\* C28  Client sharing-state invariant: between handlers isSharing is true
\* exactly when localStream is set; isSharing becomes true only in the step
\* of startSharing that follows a successful capture; and a handler that
\* runs stopSharing() (the Stop button, the capture track ending, and
\* disconnect or the close of the socket while sharing) leaves isSharing
\* false, localStream unset and the link set empty.
C28_Consistent ==
    \A c \in Cl : isSharing[c] <=> (localStream[c] # 0)

C28_Step ==
    /\ \A c \in Cl :
          (isSharing'[c] /\ ~isSharing[c])
          => (ev'.op = "captured" /\ ev'.ch = c /\ capturing[c] > 0)
    /\ (/\ ev'.op \in C28_Stops
        /\ (isSharing[ev'.ch] \/ ev'.op \in {"stopSharing", "ended"}))
       => /\ ~isSharing'[ev'.ch]
          /\ localStream'[ev'.ch] = 0
          /\ peerConnections'[ev'.ch] = [k \in Ids |-> 0]

\* C28  Client sharing-state invariant, in every state and every step.
C28_SharingState == [](C28_Consistent) /\ [][C28_Step]_vars

\* a client that was sharing, with a link in its link set, has disconnected
C28_Witness ==
    /\ ev.op = "disconnect"
    /\ ~isSharing[ev.ch]
    /\ \E p \in PCs : /\ pcs[p].owner = ev.ch
                      /\ pcs[p].role = "sharer"
                      /\ pcs[p].state = "closed"
    /\ \E x \in Streams : streams[x].owner = ev.ch /\ ~streams[x].live

\* the step wrote a set-username frame to socket ch
C29_Sent(ch) ==
    /\ Len(toRelay'[ch]) = Len(toRelay[ch]) + 1
    /\ toRelay'[ch][Len(toRelay'[ch])].type = "set-username"

\* the directory entry of channel ch carries the name its app chose, and the
\* user list of every connected app shows it
C29_Shown(ch) ==
    LET i == chanId[ch]
        c == owner[ch]
    IN  /\ i # 0
        /\ clients[i].ws = ch
        /\ username[c] \notin {"", "Anonymous"}
        /\ clients[i].username = username[c]
        /\ \A d \in Cl :
             Connected(d)
             => \E u \in users[d] : u.id = i /\ u.username = username[c]

C29_Step ==
    \A ch \in Chans :
       C29_Sent(ch)
       => /\ ev'.op = "onmessage"
          /\ ev'.msg.type = "connected"
          /\ ev'.ch = owner[ch]
          /\ clientId'[owner[ch]] = ev'.msg.clientId
          /\ toRelay'[ch][Len(toRelay'[ch])].username = username[owner[ch]]

C29_StaysOpen(ch) == cli[ch] = "open" /\ srv[ch] = "open"

\* C29  Registration completes: a set-username frame is written only by the
\* handler of a connected message, after clientId was set from it, and a
\* channel on which a client was told its id, if it stays open, leads to a
\* directory entry under that id with the chosen, non-empty username and to
\* a user list showing it at every connected client.
C29_RegistrationCompletes ==
    /\ [][C29_Step]_vars
    /\ (C29_StaysOpen(1) /\ clientId[owner[1]] = chanId[1])
         ~> (~C29_StaysOpen(1) \/ C29_Shown(1))

\* C30  Direct P2P variant teardown: a call that arrives while the host is
\* not sharing is closed and is given no stream, and when stopSharing() has
\* returned no call the host answered is still open, however many viewers
\* called while it was sharing.
C30_Step ==
    /\ (ev'.op = "call" /\ ~(isSharing[PeerHost] /\ localStream[PeerHost] # 0))
       => /\ calls'[ev'.id].state = "closed"
          /\ calls'[ev'.id].stream = 0
    /\ ev'.op \in {"peerStop", "peerEnded"}
       => \A k \in Calls : calls'[k].stream # 0 => calls'[k].state # "open"

\* C30  Direct P2P variant teardown, in every step of the host.
C30_Teardown == [][C30_Step]_vars

====
